---- MODULE Spec2Model ----
(***************************************************************************)
(* Model of main.py: the H.264 + AV1 ladder encoder and DASH packager.     *)
(*                                                                         *)
(* Strings that the program builds (filter labels) are sequences of        *)
(* one-character strings, so that prefix + str(height) is a real           *)
(* concatenation.  Files of a source's work directory are pairs            *)
(* <<family, height>>; audio.m4a is <<"audio", 0>>.                        *)
(***************************************************************************)
EXTENDS Integers, Sequences, FiniteSets, TLC

VARIABLES
    av1_enc,      \* main: "svt" | "aom" | "none"              (lines 215-224)
    packager,     \* main: "shaka" | "mp4box"                  (line 210)
    max_height,   \* args.max_height                           (line 199)
    stale,        \* what each work directory held before the run
    cur,          \* index of src in the sorted list `files`   (line 236)
    pc,           \* position of main inside the loop body
    fps,          \* value returned by get_avg_fps, <<num, den>>
    gop,          \* main: gop                                 (line 238)
    h_src,        \* main: h_src                               (line 239)
    ladder,       \* main: ladder                              (lines 242-244)
    audio_path,   \* main: audio_path, "None" or "audio.m4a"   (line 262)
    fs,           \* fs[f]: files present in work_root/<stem of f>
    manifest,     \* manifest[f]: tracks of out/<stem>/dash/manifest.mpd, <<>> if none
    log,          \* external invocations so far, in order
    bf_in,        \* inputs of the build_filter calls under study
    bf_out        \* results of the build_filter calls made so far

vars == <<av1_enc, packager, max_height, stale, cur, pc, fps, gop, h_src,
          ladder, audio_path, fs, manifest, log, bf_in, bf_out>>

(***************************************************************************)
(* Bounds                                                                  *)
(***************************************************************************)
NumFiles == 2
MaxLen == 2

Files == 1..NumFiles

(***************************************************************************)
(* Program constants                                                       *)
(***************************************************************************)
DEFAULT_LADDER == <<2160, 1440, 1080, 720, 480>>

DefaultHeight == 1080

DefaultFps == <<25, 1>>

H264_PARAMS(h) ==
    CASE h = 2160 -> [br |-> 12000, maxrate |-> 12840, bufsize |-> 24000, crf |-> 19]
      [] h = 1440 -> [br |-> 7000, maxrate |-> 7490, bufsize |-> 14000, crf |-> 20]
      [] h = 1080 -> [br |-> 5000, maxrate |-> 5350, bufsize |-> 10000, crf |-> 20]
      [] h = 720 -> [br |-> 2800, maxrate |-> 2996, bufsize |-> 5600, crf |-> 21]
      [] h = 480 -> [br |-> 1400, maxrate |-> 1498, bufsize |-> 2800, crf |-> 22]
      [] OTHER -> [br |-> 2500, maxrate |-> 2680, bufsize |-> 5000, crf |-> 21]

AV1_CRF(h) ==
    CASE h = 2160 -> 30
      [] h = 1440 -> 31
      [] h = 1080 -> 32
      [] h = 720 -> 33
      [] h = 480 -> 34
      [] OTHER -> 32

(***************************************************************************)
(* Text                                                                    *)
(***************************************************************************)
Digits == <<"0", "1", "2", "3", "4", "5", "6", "7", "8", "9">>

RECURSIVE str(_)
str(n) ==
    IF n < 10 THEN <<Digits[n + 1]>>
    ELSE str(n \div 10) \o <<Digits[(n % 10) + 1]>>

RECURSIVE Concat(_)
Concat(ss) == IF ss = <<>> THEN <<>> ELSE Head(ss) \o Concat(Tail(ss))

Bracket(l) == <<"[">> \o l \o <<"]">>

(***************************************************************************)
(* Probing.  One ffprobe invocation yields p = [ok, vals]: ok is FALSE     *)
(* when ffprobe exits non-zero (subprocess.run(check=True) raises), vals   *)
(* are the non-empty output lines.  A frame rate "N/D" is <<N, D>>.        *)
(***************************************************************************)
get_src_height(p) ==
    IF p.ok /\ Len(p.vals) > 0 THEN p.vals[1] ELSE DefaultHeight

get_avg_fps(p) ==
    IF p.ok /\ Len(p.vals) > 0
    THEN LET num == p.vals[1][1]
             den == IF p.vals[1][2] # 0 THEN p.vals[1][2] ELSE 1
         IN <<num, den>>
    ELSE DefaultFps

has_audio(p) == p.ok /\ Len(p.vals) > 0

\* Python's round() on a non-negative quotient n/d: nearest integer, ties to even.
round(n, d) ==
    LET q == n \div d
        r == n % d
    IN IF 2 * r < d THEN q
       ELSE IF 2 * r > d THEN q + 1
       ELSE IF q % 2 = 0 THEN q ELSE q + 1

max(a, b) == IF a >= b THEN a ELSE b

gop_nomax(f) == round(2 * f[1], f[2])

\* gop = max(1, round(get_avg_fps(src)*2))
gop_of(f) == max(1, round(2 * f[1], f[2]))

(***************************************************************************)
(* Ladder selection                                                        *)
(***************************************************************************)
selectLadder_nofallback(H, C) ==
    SelectSeq(DEFAULT_LADDER, LAMBDA h : h <= H /\ (C = 0 \/ h <= C))

selectLadder(H, C) ==
    LET filtered == SelectSeq(DEFAULT_LADDER, LAMBDA h : h <= H /\ (C = 0 \/ h <= C))
    IN IF filtered = <<>> THEN <<H>> ELSE filtered

(***************************************************************************)
(* Filter graph                                                            *)
(***************************************************************************)
SplitHead == <<"[", "0", ":", "v", "]", "s", "p", "l", "i", "t", "=">>

ScaleHead == <<"s", "c", "a", "l", "e", "=", "-", "2", ":">>

ScaleFlags == <<":", "f", "l", "a", "g", "s", "=", "b", "i", "c", "u", "b", "i", "c">>

build_filter_indexed(heights, prefix) ==
    LET n == Len(heights)
        split_labels == [i \in 1..n |-> prefix \o str(i - 1)]
    IN [filter_complex |-> SplitHead \o str(n),
        out_labels |-> split_labels]

build_filter(heights, prefix) ==
    LET n == Len(heights)
        split_labels == [i \in 1..n |-> prefix \o str(i - 1)]
        out_labels == [i \in 1..n |-> prefix \o str(heights[i])]
        split == SplitHead \o str(n)
                 \o Concat([i \in 1..n |-> Bracket(split_labels[i])]) \o <<";">>
        scales == [i \in 1..n |->
                     Bracket(split_labels[i]) \o ScaleHead \o str(heights[i])
                     \o ScaleFlags \o Bracket(out_labels[i])]
    IN [filter_complex |-> split \o Concat([i \in 1..n |-> scales[i] \o <<";">>]),
        out_labels |-> out_labels]

(***************************************************************************)
(* Encoder command lines: the per-output options that depend on the rung.  *)
(***************************************************************************)
encode_h264(heights, g) ==
    LET b == build_filter(heights, <<"s">>)
    IN [filter |-> b.filter_complex,
        outs |-> [i \in 1..Len(heights) |->
                    [map |-> b.out_labels[i],
                     crf |-> H264_PARAMS(heights[i]).crf,
                     g |-> g,
                     keyint_min |-> g,
                     br |-> H264_PARAMS(heights[i]).br,
                     out |-> <<"h264", heights[i]>>]]]

encode_av1(heights, g, encoder) ==
    LET b == build_filter(heights, <<"t">>)
    IN [filter |-> b.filter_complex,
        outs |-> [i \in 1..Len(heights) |->
                    [map |-> b.out_labels[i],
                     codec |-> IF encoder = "svt" THEN "libsvtav1" ELSE "libaom-av1",
                     crf |-> AV1_CRF(heights[i]),
                     g |-> g,
                     out |-> <<"av1", heights[i]>>]]]

Outputs(cmd) == {cmd.outs[i].out : i \in 1..Len(cmd.outs)}

(***************************************************************************)
(* Packaging: the track list each backend hands to its tool.               *)
(***************************************************************************)
AudioFile == <<"audio", 0>>

AudioGiven_existsOnly(audio_file, dir) == AudioFile \in dir

\* `if audio_file and audio_file.exists()`
AudioGiven(audio_file, dir) == audio_file # "None" /\ AudioFile \in dir

package_shaka(v264_files, vav1_files, audio_file, dir) ==
    [i \in 1..Len(v264_files) |->
        [in |-> v264_files[i][2], stream |-> "video", id |-> <<"h264", v264_files[i][1]>>]]
    \o [i \in 1..Len(vav1_files) |->
        [in |-> vav1_files[i][2], stream |-> "video", id |-> <<"av1", vav1_files[i][1]>>]]
    \o (IF AudioGiven(audio_file, dir)
        THEN <<[in |-> AudioFile, stream |-> "audio", id |-> AudioFile]>>
        ELSE <<>>)

package_mp4box(v264_files, vav1_files, audio_file, dir) ==
    [i \in 1..Len(v264_files) |->
        [in |-> v264_files[i][2], stream |-> "video", id |-> <<"h264", v264_files[i][1]>>]]
    \o [i \in 1..Len(vav1_files) |->
        [in |-> vav1_files[i][2], stream |-> "video", id |-> <<"av1", vav1_files[i][1]>>]]
    \o (IF AudioGiven(audio_file, dir)
        THEN <<[in |-> AudioFile, stream |-> "audio", id |-> AudioFile]>>
        ELSE <<>>)

(***************************************************************************)
(* run(): subprocess.run(check=True) raises on a non-zero exit, nothing in *)
(* main catches it, and the interpreter exits.                             *)
(***************************************************************************)
run_nocheck(ok, next) == next

run(ok, next) == IF ok THEN next ELSE "aborted"

(***************************************************************************)
(* Inputs of a run                                                         *)
(***************************************************************************)
Failed == [ok |-> FALSE, vals |-> <<>>]

Answer(v) == [ok |-> TRUE, vals |-> v]

\* avg_frame_rate answers: the unknown rate "0/0", and "5/4" (2.5 is a rounding tie)
FpsProbes == {Failed, Answer(<<<<0, 0>>>>), Answer(<<<<5, 4>>>>)}

\* a failed height probe stands for a 1080 source (the default)
HeightProbes == {Failed, Answer(<<360>>)}

AudioProbes == {Failed, Answer(<<>>), Answer(<<1>>)}

MaxHeights == {0, 720}

\* leftovers of an earlier run of the program over the same inputs
StaleFiles == {<<"av1", 1080>>, <<"av1", 360>>, AudioFile}

Entry(f, tool, ok, args) == [src |-> f, tool |-> tool, ok |-> ok, args |-> args]

NoBuildFilterCalls == bf_in = <<>> /\ bf_out = <<>>

(***************************************************************************)
(* main(), after argument parsing and the tool checks                       *)
(***************************************************************************)
Init ==
    /\ av1_enc \in {"svt", "aom", "none"}
    /\ packager \in {"shaka", "mp4box"}
    /\ max_height \in MaxHeights
    /\ stale \in {{}, StaleFiles}
    /\ cur = 1
    /\ pc = "probe"
    /\ fps = <<0, 1>>
    /\ gop = 0
    /\ h_src = 0
    /\ ladder = <<>>
    /\ audio_path = "None"
    /\ fs = [f \in Files |-> stale]
    /\ manifest = [f \in Files |-> <<>>]
    /\ log = <<>>
    /\ NoBuildFilterCalls

\* lines 237-253: gop, h_src, ladder (ensure_dir creates directories only)
Probe ==
    /\ pc = "probe"
    /\ \E pf \in FpsProbes, ph \in HeightProbes :
         /\ fps' = get_avg_fps(pf)
         /\ gop' = gop_of(get_avg_fps(pf))
         /\ h_src' = get_src_height(ph)
         /\ ladder' = selectLadder(get_src_height(ph), max_height)
         /\ log' = log \o <<Entry(cur, "ffprobe_fps", pf.ok, pf.vals),
                            Entry(cur, "ffprobe_height", ph.ok, ph.vals)>>
    /\ pc' = "h264"
    /\ UNCHANGED <<av1_enc, packager, max_height, stale, cur, audio_path, fs,
                   manifest, bf_in, bf_out>>

AfterH264_skipAV1 == "audio"

\* lines 257-259: `if av1_enc != "none": encode_av1(...)`
AfterH264 == IF av1_enc # "none" THEN "av1" ELSE "audio"

\* line 256.  A failing ffmpeg may leave any of its outputs behind.
EncodeH264 ==
    /\ pc = "h264"
    /\ LET cmd == encode_h264(ladder, gop)
       IN \E ok \in BOOLEAN, written \in SUBSET Outputs(cmd) :
            /\ ok => written = Outputs(cmd)
            /\ fs' = [fs EXCEPT ![cur] = @ \cup written]
            /\ log' = Append(log, Entry(cur, "h264", ok, cmd))
            /\ pc' = run(ok, AfterH264)
    /\ UNCHANGED <<av1_enc, packager, max_height, stale, cur, fps, gop, h_src,
                   ladder, audio_path, manifest, bf_in, bf_out>>

\* line 259
EncodeAV1 ==
    /\ pc = "av1"
    /\ LET cmd == encode_av1(ladder, gop, av1_enc)
       IN \E ok \in BOOLEAN, written \in SUBSET Outputs(cmd) :
            /\ ok => written = Outputs(cmd)
            /\ fs' = [fs EXCEPT ![cur] = @ \cup written]
            /\ log' = Append(log, Entry(cur, "av1", ok, cmd))
            /\ pc' = run(ok, "audio")
    /\ UNCHANGED <<av1_enc, packager, max_height, stale, cur, fps, gop, h_src,
                   ladder, audio_path, manifest, bf_in, bf_out>>

\* line 262 and extract_audio
ExtractAudio ==
    /\ pc = "audio"
    /\ \E pa \in AudioProbes :
         IF ~has_audio(pa)
         THEN /\ audio_path' = "None"
              /\ log' = Append(log, Entry(cur, "ffprobe_audio", pa.ok, pa.vals))
              /\ pc' = "package"
              /\ fs' = fs
         ELSE \E ok \in BOOLEAN, written \in SUBSET {AudioFile} :
                /\ ok => written = {AudioFile}
                /\ audio_path' = IF ok THEN "audio.m4a" ELSE audio_path
                /\ fs' = [fs EXCEPT ![cur] = @ \cup written]
                /\ log' = log \o <<Entry(cur, "ffprobe_audio", pa.ok, pa.vals),
                                   Entry(cur, "audio", ok, <<AudioFile>>)>>
                /\ pc' = run(ok, "package")
    /\ UNCHANGED <<av1_enc, packager, max_height, stale, cur, fps, gop, h_src,
                   ladder, manifest, bf_in, bf_out>>

\* lines 265-274, and the loop's step to the next file
Package ==
    /\ pc = "package"
    /\ LET v264_files == [i \in 1..Len(ladder) |-> <<ladder[i], <<"h264", ladder[i]>>>>]
           vav1_files == SelectSeq([i \in 1..Len(ladder) |-> <<ladder[i], <<"av1", ladder[i]>>>>],
                                   LAMBDA t : t[2] \in fs[cur])
           tracks == IF packager = "shaka"
                     THEN package_shaka(v264_files, vav1_files, audio_path, fs[cur])
                     ELSE package_mp4box(v264_files, vav1_files, audio_path, fs[cur])
       IN \E ok \in BOOLEAN :
            LET next == run(ok, IF cur < NumFiles THEN "probe" ELSE "done")
            IN /\ manifest' = IF ok THEN [manifest EXCEPT ![cur] = tracks] ELSE manifest
               /\ log' = Append(log, Entry(cur, "package", ok, tracks))
               /\ pc' = next
               /\ cur' = IF next = "probe" THEN cur + 1 ELSE cur
    /\ UNCHANGED <<av1_enc, packager, max_height, stale, fps, gop, h_src, ladder,
                   audio_path, fs, bf_in, bf_out>>

Next == Probe \/ EncodeH264 \/ EncodeAV1 \/ ExtractAudio \/ Package

Spec == Init /\ [][Next]_vars

(***************************************************************************)
(* The ladder selection of main, lines 242-244, on its own: every source   *)
(* height and cap around the canonical heights.                            *)
(***************************************************************************)
Canonical == {DEFAULT_LADDER[i] : i \in 1..Len(DEFAULT_LADDER)}

Around(S) == UNION {{h - 1, h, h + 1} : h \in S}

LadderHeights == {0, 1, 360} \cup Around(Canonical)

LadderCaps == {0, 1, 360} \cup Around(Canonical)

PipelineAtRest ==
    /\ av1_enc = "none"
    /\ packager = "shaka"
    /\ stale = {}
    /\ cur = 1
    /\ fps = <<0, 1>>
    /\ gop = 0
    /\ audio_path = "None"
    /\ fs = [f \in Files |-> {}]
    /\ manifest = [f \in Files |-> <<>>]
    /\ log = <<>>

InitLadder ==
    /\ PipelineAtRest
    /\ NoBuildFilterCalls
    /\ pc = "select"
    /\ h_src \in LadderHeights
    /\ max_height \in LadderCaps
    /\ ladder = <<>>

SelectLadder ==
    /\ pc = "select"
    /\ ladder' = selectLadder(h_src, max_height)
    /\ pc' = "selected"
    /\ UNCHANGED <<av1_enc, packager, max_height, stale, cur, fps, gop, h_src,
                   audio_path, fs, manifest, log, bf_in, bf_out>>

NextLadder == SelectLadder

SpecLadder == InitLadder /\ [][NextLadder]_vars

(***************************************************************************)
(* build_filter on its own: two calls, each with any prefix and any list   *)
(* of heights of at most MaxLen entries.                                   *)
(***************************************************************************)
Prefixes == {<<"s">>, <<"t">>, <<"s", "4">>}

FilterHeights == {80, 480, 1080}

SeqsUpTo(S, n) == UNION {[1..k -> S] : k \in 0..n}

Calls == [heights : SeqsUpTo(FilterHeights, MaxLen), prefix : Prefixes]

InitFilter ==
    /\ PipelineAtRest
    /\ pc = "filter"
    /\ h_src = 0
    /\ max_height = 0
    /\ ladder = <<>>
    /\ bf_in \in [1..2 -> Calls]
    /\ bf_out = <<>>

BuildFilter ==
    /\ pc = "filter"
    /\ Len(bf_out) < Len(bf_in)
    /\ LET c == bf_in[Len(bf_out) + 1]
       IN bf_out' = Append(bf_out, build_filter(c.heights, c.prefix))
    /\ UNCHANGED <<av1_enc, packager, max_height, stale, cur, pc, fps, gop, h_src,
                   ladder, audio_path, fs, manifest, log, bf_in>>

NextFilter == BuildFilter

SpecFilter == InitFilter /\ [][NextFilter]_vars

(***************************************************************************)
(* Properties of the ladder selection (SpecLadder)                         *)
(***************************************************************************)
Qualifying(H, C) == {h \in Canonical : h <= H /\ (C = 0 \/ h <= C)}

StrictlyDescending(q) == \A i \in 1..(Len(q) - 1) : q[i] > q[i + 1]

\* C1: the ladder is non-empty and strictly descending, every rung is <= the
\* source height, and every rung is a canonical height unless no canonical
\* height qualifies, in which case the ladder is exactly <<h_src>>.
C1_LadderShape ==
    pc = "selected" =>
        /\ Len(ladder) >= 1
        /\ StrictlyDescending(ladder)
        /\ \A i \in 1..Len(ladder) : ladder[i] <= h_src
        /\ IF Qualifying(h_src, max_height) = {}
           THEN ladder = <<h_src>>
           ELSE \A i \in 1..Len(ladder) : ladder[i] \in Canonical

\* C1 witness: both cases have been computed, here the fallback for a source
\* above a cap that no canonical height meets.
C1_Witness ==
    /\ pc = "selected"
    /\ h_src = 1081
    /\ max_height = 479
    /\ ladder = <<1081>>

\* C2 (as claimed): with a cap C > 0 every rung of the ladder is <= C, the
\* single-rung fallback included.
C2_CapRespected ==
    (pc = "selected" /\ max_height > 0) =>
        \A i \in 1..Len(ladder) : ladder[i] <= max_height

(***************************************************************************)
(* Properties of build_filter (SpecFilter)                                 *)
(***************************************************************************)
DigitValue(c) == (CHOOSE d \in 1..10 : Digits[d] = c) - 1

IsDigit(c) == \E d \in 1..10 : Digits[d] = c

RECURSIVE DecimalValue(_)
DecimalValue(ds) ==
    IF Len(ds) = 1 THEN DigitValue(ds[1])
    ELSE 10 * DecimalValue(SubSeq(ds, 1, Len(ds) - 1)) + DigitValue(ds[Len(ds)])

\* label is prefix followed by the decimal rendering of h
IsPrefixThenHeight(label, prefix, h) ==
    /\ Len(label) > Len(prefix)
    /\ SubSeq(label, 1, Len(prefix)) = prefix
    /\ LET ds == SubSeq(label, Len(prefix) + 1, Len(label))
       IN /\ \A k \in 1..Len(ds) : IsDigit(ds[k])
          /\ (Len(ds) > 1 => ds[1] # "0")
          /\ DecimalValue(ds) = h

LabelSet(k) == {bf_out[k].out_labels[i] : i \in 1..Len(bf_out[k].out_labels)}

LabelsInOrder ==
    \A k \in 1..Len(bf_out) :
        /\ Len(bf_out[k].out_labels) = Len(bf_in[k].heights)
        /\ \A i \in 1..Len(bf_in[k].heights) :
             IsPrefixThenHeight(bf_out[k].out_labels[i], bf_in[k].prefix,
                                bf_in[k].heights[i])

IsInitialSegment(p, q) == Len(p) <= Len(q) /\ SubSeq(q, 1, Len(p)) = p

\* C9 (as claimed): len(heights) labels, the i-th being prefix followed by
\* heights[i], and two calls with different prefixes never share a label.
C9_AnyDifferentPrefixes ==
    /\ LabelsInOrder
    /\ \A j, k \in 1..Len(bf_out) :
         bf_in[j].prefix # bf_in[k].prefix => LabelSet(j) \cap LabelSet(k) = {}

\* C9 (amended): len(heights) labels, the i-th being prefix followed by
\* heights[i]; two calls share no label when neither prefix is an initial
\* segment of the other, as with the encoders' "s" and "t".
C9_PrefixFreeLabels ==
    /\ LabelsInOrder
    /\ \A j, k \in 1..Len(bf_out) :
         (/\ ~IsInitialSegment(bf_in[j].prefix, bf_in[k].prefix)
          /\ ~IsInitialSegment(bf_in[k].prefix, bf_in[j].prefix))
         => LabelSet(j) \cap LabelSet(k) = {}

\* C9 witness: the two encoders' calls, same heights, prefixes "s" and "t".
C9_Witness ==
    /\ Len(bf_out) = 2
    /\ bf_in[1].prefix = <<"s">>
    /\ bf_in[2].prefix = <<"t">>
    /\ bf_in[1].heights = bf_in[2].heights
    /\ Len(bf_in[1].heights) >= 2
    /\ bf_in[1].heights[1] # bf_in[1].heights[2]

(***************************************************************************)
(* Properties of a run (Spec), read off the invocation log                 *)
(***************************************************************************)
Idx == 1..Len(log)

IsTool(i, f, tool) == log[i].src = f /\ log[i].tool = tool

ProbeTools == {"ffprobe_fps", "ffprobe_height", "ffprobe_audio"}

\* the prober reported at least one audio stream for source f
ReportedAudio(f) ==
    \E i \in Idx : IsTool(i, f, "ffprobe_audio") /\ log[i].ok /\ Len(log[i].args) > 0

\* number of rungs of the ladder computed for source f
Rungs(f) == LET i == CHOOSE i \in Idx : IsTool(i, f, "h264") IN Len(log[i].args.outs)

AudioTracks(tracks) == {k \in 1..Len(tracks) : tracks[k].stream = "audio"}

\* C3 (as claimed): the packager is handed |ladder| x (2 if an AV1 encoder is
\* available, else 1) + (1 if the source has audio, else 0) tracks, whatever
\* the work directory held before the run.
C3_TrackCount ==
    \A i \in Idx :
        log[i].tool = "package" =>
            Len(log[i].args) =
                Rungs(log[i].src) * (IF av1_enc # "none" THEN 2 ELSE 1)
                + (IF ReportedAudio(log[i].src) THEN 1 ELSE 0)

\* C4 (as claimed): after the packaging tool fails for a source that is not
\* the last one, the run goes on with the next source.
C4_NextFileStillProcessed ==
    \A i \in Idx :
        (log[i].tool = "package" /\ ~log[i].ok /\ log[i].src < NumFiles) =>
            pc # "aborted"

\* C4 (amended): a non-zero exit of the packaging tool ends the whole run: it
\* is the last invocation made, no manifest is written for that source, and no
\* later source gets any invocation.
C4_PackagingFailureEndsRun ==
    \A i \in Idx :
        (log[i].tool = "package" /\ ~log[i].ok) =>
            /\ i = Len(log)
            /\ pc = "aborted"
            /\ manifest[log[i].src] = <<>>
            /\ \A j \in Idx : log[j].src <= log[i].src

\* C4 witness: packaging of the first source failed while a later one waits.
C4_Witness ==
    /\ Len(log) > 0
    /\ log[Len(log)].tool = "package"
    /\ ~log[Len(log)].ok
    /\ log[Len(log)].src < NumFiles
    /\ pc = "aborted"

\* what the successful invocations logged for source f wrote
Written(f) ==
    UNION {IF log[i].tool \in {"h264", "av1"} THEN Outputs(log[i].args) ELSE {AudioFile}
           : i \in {j \in Idx : log[j].src = f /\ log[j].ok
                                 /\ log[j].tool \in {"h264", "av1", "audio"}}}

\* source f stands as its own packaging left it
AsCompleted(f) ==
    /\ \E i \in Idx : IsTool(i, f, "package") /\ log[i].ok /\ manifest[f] = log[i].args
    /\ fs[f] = stale \cup Written(f)

\* C5: when an encode invocation exits non-zero, nothing more is invoked for
\* that source, no manifest is produced for it, and the files and manifests of
\* the sources completed earlier stand as they were.
C5_EncodeFailureStops ==
    \A i \in Idx :
        (log[i].tool \in {"h264", "av1"} /\ ~log[i].ok) =>
            /\ i = Len(log)
            /\ pc = "aborted"
            /\ manifest[log[i].src] = <<>>
            /\ \A f \in 1..(log[i].src - 1) : AsCompleted(f)

\* C5 witness: the AV1 encode of the second source failed after the first
\* source was packaged.
C5_Witness ==
    /\ Len(log) > 0
    /\ log[Len(log)].tool = "av1"
    /\ ~log[Len(log)].ok
    /\ log[Len(log)].src = 2
    /\ manifest[1] # <<>>

\* the tool that main invokes after `prev` within one source
FollowsInSource(prev, next) ==
    CASE prev = "ffprobe_fps" -> next = "ffprobe_height"
      [] prev = "ffprobe_height" -> next = "h264"
      [] prev = "h264" -> next = (IF av1_enc # "none" THEN "av1" ELSE "ffprobe_audio")
      [] prev = "av1" -> next = "ffprobe_audio"
      [] prev = "ffprobe_audio" -> next \in {"audio", "package"}
      [] prev = "audio" -> next = "package"
      [] prev = "package" -> FALSE

\* sources in list order, one after the other; within a source the probes,
\* the H.264 encode, the AV1 encode when an encoder is available, the audio
\* extraction and the packaging, none left out; a source is first touched
\* right after the packaging of the one before it
InPipelineOrder ==
    /\ Len(log) > 0 => log[1].src = 1 /\ log[1].tool = "ffprobe_fps"
    /\ \A j \in 2..Len(log) :
         IF log[j].src = log[j - 1].src
         THEN FollowsInSource(log[j - 1].tool, log[j].tool)
         ELSE /\ log[j].src = log[j - 1].src + 1
              /\ log[j - 1].tool = "package"
              /\ log[j].tool = "ffprobe_fps"

\* C6 (as claimed): the invocations run in pipeline order, source after
\* source, each starting only after the previous one exited successfully.
C6_EachAfterSuccess ==
    /\ InPipelineOrder
    /\ \A j \in 2..Len(log) : log[j - 1].ok

\* C6 (amended): the invocations run in pipeline order, source after source,
\* each starting only after the previous one exited -- successfully when the
\* previous one is an encode, the audio extraction or the packaging; a probe
\* that fails is answered by its default and the pipeline goes on.
C6_Sequential ==
    /\ InPipelineOrder
    /\ \A j \in 2..Len(log) : log[j - 1].ok \/ log[j - 1].tool \in ProbeTools

\* C6 witness: a whole run with an AV1 encoder, audio extracted for the last
\* source, after a probe of the first source had failed.
C6_Witness ==
    /\ pc = "done"
    /\ av1_enc # "none"
    /\ \E i \in Idx : IsTool(i, 1, "ffprobe_fps") /\ ~log[i].ok
    /\ \E i \in Idx : IsTool(i, NumFiles, "audio")
    /\ \A f \in Files : manifest[f] # <<>>

\* C7: without reported audio (no stream, or a failed audio probe) no audio
\* encoder is invoked, no audio file is written and the packager gets no audio
\* track, even if audio.m4a was left by an earlier run; with audio the packager
\* gets exactly one audio track, audio.m4a with identifier "audio".
C7_AudioTrack ==
    /\ \A i \in Idx : log[i].tool = "audio" => ReportedAudio(log[i].src)
    /\ \A f \in Files :
         ((\E i \in Idx : IsTool(i, f, "ffprobe_audio")) /\ ~ReportedAudio(f)) =>
             (AudioFile \in fs[f] <=> AudioFile \in stale)
    /\ \A i \in Idx :
         log[i].tool = "package" =>
             IF ReportedAudio(log[i].src)
             THEN /\ Cardinality(AudioTracks(log[i].args)) = 1
                  /\ \A k \in AudioTracks(log[i].args) :
                       log[i].args[k].in = AudioFile /\ log[i].args[k].id = AudioFile
                  /\ \E j \in 1..(i - 1) : IsTool(j, log[i].src, "audio") /\ log[j].ok
             ELSE AudioTracks(log[i].args) = {}

\* C7 witness: a source whose audio probe failed is packaged while an
\* audio.m4a of an earlier run lies in its work directory.
C7_Witness ==
    /\ AudioFile \in stale
    /\ \E i, j \in Idx :
         /\ IsTool(i, 1, "ffprobe_audio")
         /\ ~log[i].ok
         /\ IsTool(j, 1, "package")
         /\ log[j].ok

Abs(x) == IF x < 0 THEN -x ELSE x

\* g is max(1, the integer nearest to 2*num/den)
IsGopOf(g, num, den) ==
    /\ g >= 1
    /\ num = 0 => g = 1
    /\ g > 1 => 2 * Abs(g * den - 2 * num) <= den
    /\ g = 1 => 4 * num <= 3 * den

\* the keyframe interval claimed for source f, from its frame-rate probe
GopClaimed(f, g) ==
    LET p == log[CHOOSE i \in Idx : IsTool(i, f, "ffprobe_fps")]
    IN IF ~p.ok THEN g = 50
       ELSE IsGopOf(g, p.args[1][1], IF p.args[1][2] = 0 THEN 1 ELSE p.args[1][2])

\* C8: gop = max(1, round(avgFps*2)) -- at least 1, 1 for a rate of 0, 50 on
\* the probe-failure default -- and every rung of the H.264 and of the AV1
\* invocation of a source is given that same value.
C8_Gop ==
    \A i \in Idx :
        log[i].tool \in {"h264", "av1"} =>
            LET outs == log[i].args.outs
            IN /\ Len(outs) >= 1
               /\ GopClaimed(log[i].src, outs[1].g)
               /\ \A k \in 1..Len(outs) : outs[k].g = outs[1].g
               /\ log[i].tool = "h264" =>
                    \A k \in 1..Len(outs) : outs[k].keyint_min = outs[1].g
               /\ log[i].tool = "av1" =>
                    \A j \in 1..(i - 1) :
                        IsTool(j, log[i].src, "h264") =>
                            log[j].args.outs[1].g = outs[1].g

\* C8 witness: a source of unknown frame rate ("0/0") went through both
\* encoders with a three-rung ladder and gop = 1.
C8_Witness ==
    \E i, j, p \in Idx :
        /\ IsTool(p, 1, "ffprobe_fps") /\ log[p].ok /\ log[p].args = <<<<0, 0>>>>
        /\ IsTool(i, 1, "h264") /\ IsTool(j, 1, "av1")
        /\ Len(log[j].args.outs) = 3
        /\ log[j].args.outs[3].g = 1
        /\ log[i].args.outs[1].g = 1

\* C10 (as claimed): a failed H.264 encode does not keep the AV1 encode of the
\* same source from running.
C10_AV1RunsAfterH264Failure ==
    \A i \in Idx :
        (log[i].tool = "h264" /\ ~log[i].ok /\ av1_enc # "none") => pc # "aborted"

\* C10 (amended): a failed H.264 encode ends the run, so the AV1 encode of
\* that source is never invoked; the AV1 encode is invoked only after the
\* H.264 encode of the same source exited successfully.
C10_H264FailureStopsAV1 ==
    /\ \A i \in Idx :
         (log[i].tool = "h264" /\ ~log[i].ok) =>
             /\ pc = "aborted"
             /\ ~\E j \in Idx : IsTool(j, log[i].src, "av1")
    /\ \A j \in Idx :
         log[j].tool = "av1" =>
             \E i \in 1..(j - 1) : IsTool(i, log[j].src, "h264") /\ log[i].ok

\* C10 witness: the H.264 encode failed in a run that has an AV1 encoder.
C10_Witness ==
    /\ av1_enc # "none"
    /\ Len(log) > 0
    /\ log[Len(log)].tool = "h264"
    /\ ~log[Len(log)].ok
    /\ pc = "aborted"

====
